---- MODULE Spec2Model ----
(***************************************************************************)
(* A model of the list-features crate (src/src/lib.rs).                    *)
(*                                                                         *)
(* Strings are sequences of one-character strings, so that trimming,       *)
(* splitting, prefix tests, case conversion and byte ordering are computed *)
(* character by character as the Rust code computes them.                  *)
(***************************************************************************)
EXTENDS Integers, Sequences, FiniteSets, TLC

VARIABLES
  pc,              \* position of the running call
  lines,           \* parse_feature_keys_from_lines: the `lines` argument
  pos,             \* number of lines the `for line in lines` loop has consumed
  in_features,     \* parse_feature_keys_from_lines: `in_features`
  features,        \* parse_feature_keys_from_lines: `features`
  scanned,         \* value returned by parse_feature_keys_from_lines
  path_ok,         \* list_all: whether File::open succeeds on the path
  file_lines,      \* list_all: the lines of the file behind the path
  bad_line,        \* list_all: index of the line whose read fails (0: none)
  collected,       \* list_all: lines gathered so far by `.lines().collect()`
  list_all_result, \* list_all: the returned Result
  all_features,    \* list_enabled_among: the `all_features` argument
  env,             \* the environment of the process (std::env)
  pending,         \* entries of the std::env::vars() snapshot not yet visited
  enabled,         \* list_enabled_among: `enabled`
  result,          \* value returned by list_enabled_among
  returned,        \* values returned by the calls completed so far
  snaps,           \* the std::env::vars() snapshot each completed call took
  writes           \* number of set_var / remove_var calls made so far

vars == << pc, lines, pos, in_features, features, scanned, path_ok, file_lines,
           bad_line, collected, list_all_result, all_features, env, pending,
           enabled, result, returned, snaps, writes >>

scanVars == << lines, pos, in_features, features, scanned >>
fileVars == << path_ok, file_lines, bad_line, collected, list_all_result >>
envVars  == << all_features, env, pending, enabled, result, returned, snaps, writes >>

----------------------------------------------------------------------------
(* Bounds of the model. *)

MaxLines == 3        \* lines per scanned input
MaxFileLines == 3    \* lines per file read by list_all
MaxEnv == 3          \* variables in the environment
MaxFileEnv == 1      \* variables in the environment of a whole run from the file
MaxDeclared == 3     \* names in the declared set handed to the resolver
MaxCalls == 2        \* resolver calls one thread makes in a row
MaxWrites == 3       \* set_var / remove_var calls of the other threads

----------------------------------------------------------------------------
(* Characters and strings. *)

UpperChars == << "A","B","C","D","E","F","G","H","I","J","K","L","M",
                 "N","O","P","Q","R","S","T","U","V","W","X","Y","Z" >>
LowerChars == << "a","b","c","d","e","f","g","h","i","j","k","l","m",
                 "n","o","p","q","r","s","t","u","v","w","x","y","z" >>

Range(s) == { s[i] : i \in 1..Len(s) }

IsUpper(c) == c \in Range(UpperChars)
IsLower(c) == c \in Range(LowerChars)
IndexIn(c, alphabet) == CHOOSE i \in 1..Len(alphabet) : alphabet[i] = c

\* char::is_whitespace, on the characters of the model
IsWhitespace(c) == c \in {" ", "\t"}

\* The byte of an ASCII character: the order `String: Ord` compares by.
Byte(c) ==
  IF IsUpper(c) THEN 64 + IndexIn(c, UpperChars)
  ELSE IF IsLower(c) THEN 96 + IndexIn(c, LowerChars)
  ELSE CASE c = "\t" -> 9
         [] c = " "  -> 32
         [] c = "\"" -> 34
         [] c = "#"  -> 35
         [] c = ","  -> 44
         [] c = "-"  -> 45
         [] c = "."  -> 46
         [] c = "0"  -> 48
         [] c = "1"  -> 49
         [] c = "="  -> 61
         [] c = "["  -> 91
         [] c = "]"  -> 93
         [] c = "_"  -> 95

\* a < b for strings: lexicographic by byte, a proper prefix first
RECURSIVE StrLess(_, _)
StrLess(a, b) ==
  IF b = << >> THEN FALSE
  ELSE IF a = << >> THEN TRUE
  ELSE IF Byte(Head(a)) # Byte(Head(b)) THEN Byte(Head(a)) < Byte(Head(b))
  ELSE StrLess(Tail(a), Tail(b))

StrLeq(a, b) == a = b \/ StrLess(a, b)

\* str::starts_with / the test of str::strip_prefix
StartsWith(s, p) == Len(s) >= Len(p) /\ SubSeq(s, 1, Len(p)) = p

\* index of the first occurrence of character c in s, 0 when there is none
FirstIndex(s, c) ==
  IF \E i \in 1..Len(s) : s[i] = c
  THEN CHOOSE i \in 1..Len(s) : s[i] = c /\ \A j \in 1..(i - 1) : s[j] # c
  ELSE 0

\* str::trim_start_matches / trim_end_matches for a class of characters
RECURSIVE TrimStartBy(_, _)
TrimStartBy(s, drop) ==
  IF s # << >> /\ Head(s) \in drop THEN TrimStartBy(Tail(s), drop) ELSE s

RECURSIVE TrimEndBy(_, _)
TrimEndBy(s, drop) ==
  IF s # << >> /\ s[Len(s)] \in drop
  THEN TrimEndBy(SubSeq(s, 1, Len(s) - 1), drop) ELSE s

\* str::trim
Trim(s) == TrimEndBy(TrimStartBy(s, {" ", "\t"}), {" ", "\t"})

\* one layer of surrounding quotes only: the first and the last character
TrimQuotesOneLayer(s) ==
  IF Len(s) >= 2 /\ s[1] = "\"" /\ s[Len(s)] = "\""
  THEN SubSeq(s, 2, Len(s) - 1) ELSE s

\* str::trim_matches('"')
TrimQuotes(s) == TrimEndBy(TrimStartBy(s, {"\""}), {"\""})

----------------------------------------------------------------------------
(* parse_feature_keys_from_lines (src/src/lib.rs:148-174). *)

FeaturesHeader == << "[", "f", "e", "a", "t", "u", "r", "e", "s", "]" >>

\* `line.split('#').next().unwrap_or("")`: the text before the first '#'
StripComment(line) ==
  IF FirstIndex(line, "#") = 0 THEN line
  ELSE SubSeq(line, 1, FirstIndex(line, "#") - 1)

\* `line.split('#').next().unwrap_or("").trim()`
Stripped(line) == Trim(StripComment(line))

\* `stripped.starts_with('[')`
IsHeaderLine(line) == StartsWith(Stripped(line), << "[" >>)

\* `stripped.split_once('=')` is Some
HasEquals(line) == FirstIndex(Stripped(line), "=") # 0

\* the first half of `stripped.split_once('=')`
LeftOfEquals(line) ==
  SubSeq(Stripped(line), 1, FirstIndex(Stripped(line), "=") - 1)

KeyOf_OneLayer(line) == TrimQuotesOneLayer(Trim(LeftOfEquals(line)))

\* `key.trim().trim_matches('"')`
KeyOf(line) == TrimQuotes(Trim(LeftOfEquals(line)))

\* a header only ever switches the section on
ScanStep_NoReset(st, line) ==
  IF IsHeaderLine(line)
  THEN [ in_features |-> st.in_features \/ Stripped(line) = FeaturesHeader,
         features |-> st.features ]
  ELSE IF st.in_features /\ Stripped(line) # << >> /\ HasEquals(line)
          /\ KeyOf(line) # << >>
  THEN [ st EXCEPT !.features = @ \cup { KeyOf(line) } ]
  ELSE st

\* the header is recognised by prefix instead of by equality
ScanStep_PrefixHeader(st, line) ==
  IF IsHeaderLine(line)
  THEN [ in_features |-> StartsWith(Stripped(line), FeaturesHeader),
         features |-> st.features ]
  ELSE IF st.in_features /\ Stripped(line) # << >> /\ HasEquals(line)
          /\ KeyOf(line) # << >>
  THEN [ st EXCEPT !.features = @ \cup { KeyOf(line) } ]
  ELSE st

\* a line without '=' is taken as a bare key, and the empty key is kept
ScanStep_BareKey(st, line) ==
  IF IsHeaderLine(line)
  THEN [ in_features |-> Stripped(line) = FeaturesHeader,
         features |-> st.features ]
  ELSE IF st.in_features /\ Stripped(line) # << >>
  THEN [ st EXCEPT !.features = @ \cup
           { IF HasEquals(line) THEN KeyOf(line) ELSE TrimQuotes(Stripped(line)) } ]
  ELSE st

\* One iteration of `for line in lines`, on the loop's state
\* st = [in_features, features].
ScanStep(st, line) ==
  IF IsHeaderLine(line)
  THEN [ in_features |-> Stripped(line) = FeaturesHeader,
         features |-> st.features ]
  ELSE IF st.in_features /\ Stripped(line) # << >> /\ HasEquals(line)
          /\ KeyOf(line) # << >>
  THEN [ st EXCEPT !.features = @ \cup { KeyOf(line) } ]
  ELSE st

\* the loop's state after all of `ls`, started from st
RECURSIVE ScanAll(_, _)
ScanAll(st, ls) ==
  IF ls = << >> THEN st ELSE ScanAll(ScanStep(st, Head(ls)), Tail(ls))

\* parse_feature_keys_from_lines(lines)
ParseFeatureKeysFromLines(ls) ==
  ScanAll([ in_features |-> FALSE, features |-> {} ], ls).features

----------------------------------------------------------------------------
(* Inputs of the scanner. *)

LFeatures == << "[", "f", "e", "a", "t", "u", "r", "e", "s", "]" >>
LFeaturesComment == << " ", " ", "[", "f", "e", "a", "t", "u", "r", "e", "s", "]", " ", "#", " ", "t", "h", "i", "s", " ", "i", "s", " ", "v", "a", "l", "i", "d", " ", "T", "O", "M", "L" >>
LFeaturesInline == << "[", "f", "e", "a", "t", "u", "r", "e", "s", "]", " ", "f", "o", "o", " ", "=", " ", "[", "]" >>
LFeaturesDot == << "[", "f", "e", "a", "t", "u", "r", "e", "s", ".", "x", "]" >>
LBadInline == << "[", "b", "a", "d", "]", " ", "f", "o", "o", " ", "=", " ", "[", "]" >>
LDeps == << "[", "d", "e", "p", "s", "]" >>
LFoo == << " ", " ", "f", "o", "o", " ", "=", " ", "[", "]" >>
LBar == << "b", "a", "r", "=", "[", "\"", "b", "a", "z", "\"", ",", " ", "\"", "q", "u", "x", "\"", "]", " ", "#", " ", "c", "o", "m", "m", "e", "n", "t" >>
LQuoted == << "\"", "b", "-", "z", "\"", " ", "=", " ", "[", "]" >>
LWord == << "j", "u", "s", "t", "_", "a", "_", "w", "o", "r", "d" >>
LElem == << " ", " ", "\"", "o", "n", "e", "\"", "," >>
LEmptyKey == << " ", " ", " ", "=", " ", "[", "]" >>
LCommented == << "#", "b", "a", "z", " ", "=", " ", "[", "]" >>
LBlank == << " ", " " >>

LDefault == << "d", "e", "f", "a", "u", "l", "t", " ", "=", " ", "[", "]" >>

LinePool == { LFeatures, LFeaturesComment, LFeaturesInline, LFeaturesDot, LBadInline, LDeps, LFoo, LBar, LQuoted, LWord, LElem, LEmptyKey, LCommented, LBlank }

\* all sequences over S of length at most n
RECURSIVE SeqsUpTo(_, _)
SeqsUpTo(S, n) ==
  IF n = 0 THEN { << >> }
  ELSE LET shorter == SeqsUpTo(S, n - 1)
       IN  shorter \cup { Append(q, x) : q \in { r \in shorter : Len(r) = n - 1 }, x \in S }

\* Declaration lines put together from their parts: leading whitespace,
\* opening quotes, name, closing quotes, whitespace, '=' or nothing, value.
KeyLeads  == { << >>, << " " >>, << "\t", " " >> }
KeyQuotes == { << >>, << "\"" >>, << "\"", "\"" >> }
KeyNames  == { << >>, << "f", "o", "o" >>, << "F", "o", " ", "_", "o" >>,
               << " ", "a", "\"", "b", "\t" >> }
KeyGaps   == { << >>, << " ", "\t" >> }
KeyEquals == { << >>, << "=" >> }
KeyValues == { << "[", "]" >>, << " ", "[", "\"", "x", "=", "y", "\"", "]", " ", "#", "c" >> }

KeyLines ==
  { lead \o ql \o name \o qr \o gap \o eq \o val :
      lead \in KeyLeads, ql \in KeyQuotes, name \in KeyNames, qr \in KeyQuotes,
      gap \in KeyGaps, eq \in KeyEquals, val \in KeyValues }

\* tests/edge_cases.rs, accepts_multiple_features_sections: the section is
\* closed by another one and opened again
ReopenedInput ==
  << LBlank, LFeatures, LFoo, LDeps, LBar, LFeaturesComment, LQuoted, LBlank >>

ScanInputs ==
  SeqsUpTo(LinePool, MaxLines) \cup { << LFeatures, l >> : l \in KeyLines }
    \cup { ReopenedInput }

----------------------------------------------------------------------------
(* The scanner as a state machine: one step per line of the loop. *)

IdleFile ==
  /\ path_ok = TRUE
  /\ file_lines = << >>
  /\ bad_line = 0
  /\ collected = << >>
  /\ list_all_result = [ tag |-> "none", value |-> {} ]

IdleScan ==
  /\ lines = << >>
  /\ pos = 0
  /\ in_features = FALSE
  /\ features = {}
  /\ scanned = {}

IdleEnv ==
  /\ all_features = {}
  /\ env = {}
  /\ pending = {}
  /\ enabled = << >>
  /\ result = << >>
  /\ returned = << >>
  /\ snaps = << >>
  /\ writes = 0

InitScan ==
  /\ pc = "scan"
  /\ lines \in ScanInputs
  /\ pos = 0
  /\ in_features = FALSE
  /\ features = {}
  /\ scanned = {}
  /\ IdleFile
  /\ IdleEnv

\* the body of `for line in lines`, on the next line
ScanLine ==
  /\ pc = "scan"
  /\ pos < Len(lines)
  /\ LET st == ScanStep([ in_features |-> in_features, features |-> features ],
                        lines[pos + 1])
     IN  /\ in_features' = st.in_features
         /\ features' = st.features
  /\ pos' = pos + 1
  /\ UNCHANGED << pc, lines, scanned, fileVars, envVars >>

\* the loop is over: `features` is returned
ScanReturn ==
  /\ pc = "scan"
  /\ pos = Len(lines)
  /\ scanned' = features
  /\ pc' = "scanned"
  /\ UNCHANGED << lines, pos, in_features, features, fileVars, envVars >>

NextScan == ScanLine \/ ScanReturn

SpecScan == InitScan /\ [][NextScan]_vars

----------------------------------------------------------------------------
(* Properties of the scanner. *)

\* line i of ls lies in an open [features] section: the closest header line
\* before it reads exactly [features]
ActiveAt(ls, i) ==
  \E j \in 1..(i - 1) :
    /\ Stripped(ls[j]) = FeaturesHeader
    /\ \A m \in (j + 1)..(i - 1) : ~ IsHeaderLine(ls[m])

\* the line is a declaration of a non-empty key
Declares(line) == ~ IsHeaderLine(line) /\ HasEquals(line) /\ KeyOf(line) # << >>

DeclaredIn(ls, n) ==
  { KeyOf(ls[i]) : i \in { k \in 1..n : Declares(ls[k]) /\ ActiveAt(ls, k) } }

\* the loop is about to process a line
AtLine == pc = "scan" /\ pos < Len(lines)
NextLine == lines[pos + 1]

\* C5: the keys gathered so far are exactly those declared on lines processed
\* while [features] was the open section, over all its occurrences; nothing is
\* gathered, and nothing returned, when no line's trimmed text is [features].
C5_OnlyTargetSectionKeys ==
  /\ features = DeclaredIn(lines, pos)
  /\ (\A i \in 1..pos : Stripped(lines[i]) # FeaturesHeader) => features = {}
  /\ pc = "scanned" => scanned = DeclaredIn(lines, Len(lines))

C5_Witness ==
  /\ pc = "scanned"
  /\ lines = ReopenedInput
  /\ scanned = { KeyOf(LFoo), KeyOf(LQuoted) }
  /\ KeyOf(LBar) \notin scanned

C5_WitnessBeforeHeader ==
  /\ pc = "scanned"
  /\ Len(lines) = 2
  /\ Declares(lines[1])
  /\ lines[2] = LFeatures
  /\ scanned = {}

\* C6: after any prefix of the lines the flag is true exactly when the prefix
\* holds a header line and the latest one reads exactly [features]; and a
\* header line never adds a key, whatever follows the bracket on it.
C6_FlagFollowsLastHeader ==
  /\ [](in_features <=>
          \E j \in 1..pos :
            /\ IsHeaderLine(lines[j])
            /\ \A m \in (j + 1)..pos : ~ IsHeaderLine(lines[m])
            /\ Stripped(lines[j]) = FeaturesHeader)
  /\ [][(AtLine /\ IsHeaderLine(NextLine)) => features' = features]_vars

C6_Witness ==
  /\ pc = "scan"
  /\ pos = 3
  /\ lines[1] = LFeatures
  /\ lines[2] = LFoo
  /\ lines[3] = LFeaturesInline
  /\ ~ in_features
  /\ features = { KeyOf(LFoo) }

\* left = spaces, quotes, key, quotes, spaces: the key is what is left of
\* `left` once the whitespace around it and then every double quote around
\* the rest are taken off.
AddsTrimmedKey(left, before, after) ==
  LET n == Len(left)
  IN  \E a \in 1..(n + 1) :
        /\ \A p \in 1..(a - 1) : IsWhitespace(left[p])
        /\ a <= n => ~ IsWhitespace(left[a])
        /\ \E b \in (a - 1)..n :
             /\ \A p \in (b + 1)..n : IsWhitespace(left[p])
             /\ b >= a => ~ IsWhitespace(left[b])
             /\ \E i \in a..(b + 1) :
                  /\ \A p \in a..(i - 1) : left[p] = "\""
                  /\ i <= b => left[i] # "\""
                  /\ \E j \in (i - 1)..b :
                       /\ \A p \in (j + 1)..b : left[p] = "\""
                       /\ j >= i => left[j] # "\""
                       /\ after = before \cup
                            (IF j >= i THEN { SubSeq(left, i, j) } ELSE {})

\* the loop is about to process a declaration line inside the section
AtDeclaration ==
  AtLine /\ in_features /\ ~ IsHeaderLine(NextLine) /\ HasEquals(NextLine)

\* C7 (as amended): the key inserted for a declaration line of the open
\* section is the text left of the first '=', with the surrounding whitespace
\* trimmed and then every leading and trailing double quote removed; the
\* letters keep their case, and whitespace inside the quotes stays.
C7_KeyIsTrimmedUnquotedLeft ==
  [][AtDeclaration =>
       AddsTrimmedKey(LeftOfEquals(NextLine), features, features')]_vars

C7_Witness ==
  /\ pc = "scanned"
  /\ Len(lines) = 2
  /\ lines[2] = << "\t", " ", "\"", "\"", "F", "o", " ", "_", "o", "\"", " ", "\t", "=", "[", "]" >>
  /\ scanned = { << "F", "o", " ", "_", "o" >> }

\* C7 (as stated): exactly one layer of quotes, the first and the last
\* character, is removed from the trimmed text left of the first '='.
C7_OneLayerOfQuotes ==
  [][AtDeclaration =>
       features' = features \cup
         (IF KeyOf_OneLayer(NextLine) = << >> THEN {}
          ELSE { KeyOf_OneLayer(NextLine) })]_vars

\* C8: a line without '=' adds no key and leaves the section open, so the
\* declarations after it are still gathered; the empty string is never a key.
C8_NoEqualsNoKey ==
  /\ [](<< >> \notin features)
  /\ [][(AtLine /\ ~ IsHeaderLine(NextLine) /\ ~ HasEquals(NextLine)) =>
          (features' = features /\ in_features' = in_features)]_vars

C8_Witness ==
  /\ pc = "scanned"
  /\ lines = << LFeatures, LWord, LFoo >>
  /\ scanned = { KeyOf(LFoo) }

C8_WitnessEmptyKey ==
  /\ pc = "scanned"
  /\ lines = << LFeatures, LEmptyKey, LElem >>
  /\ scanned = {}

----------------------------------------------------------------------------
(* list_enabled_among (src/src/lib.rs:187-208). *)

CargoFeaturePrefix == << "C", "A", "R", "G", "O", "_", "F", "E", "A", "T", "U", "R", "E", "_" >>
DefaultName == << "d", "e", "f", "a", "u", "l", "t" >>

\* char::to_lowercase, on the characters of the model
LowerChar(c) == IF IsUpper(c) THEN LowerChars[IndexIn(c, UpperChars)] ELSE c
UpperChar(c) == IF IsLower(c) THEN UpperChars[IndexIn(c, LowerChars)] ELSE c

\* str::to_lowercase
RECURSIVE ToLowercase(_)
ToLowercase(s) ==
  IF s = << >> THEN << >> ELSE << LowerChar(Head(s)) >> \o ToLowercase(Tail(s))

\* str::replace(from, to) for single characters
RECURSIVE Replace(_, _, _)
Replace(s, from, to) ==
  IF s = << >> THEN << >>
  ELSE << IF Head(s) = from THEN to ELSE Head(s) >> \o Replace(Tail(s), from, to)

\* `name.to_lowercase().replace('_', "-")`
Normalize(name) == Replace(ToLowercase(name), "_", "-")

\* `k.strip_prefix("CARGO_FEATURE_")` is Some
HasPrefix(k) == StartsWith(k, CargoFeaturePrefix)

\* the value of `k.strip_prefix("CARGO_FEATURE_")`
StripPrefix(k) == SubSeq(k, Len(CargoFeaturePrefix) + 1, Len(k))

\* the prefix is matched whatever the case of its letters
Visit_AnyCasePrefix(k, all) ==
  IF StartsWith(ToLowercase(k), ToLowercase(CargoFeaturePrefix))
       /\ Normalize(StripPrefix(k)) \in all
  THEN << Normalize(StripPrefix(k)) >>
  ELSE << >>

\* The closure of filter_map on the name k of one variable: what it adds to
\* `enabled` (nothing for None).  The value of the variable is dropped.
Visit(k, all) ==
  IF HasPrefix(k) /\ Normalize(StripPrefix(k)) \in all
  THEN << Normalize(StripPrefix(k)) >>
  ELSE << >>

\* s with x put before the first element greater than x
RECURSIVE InsertSorted(_, _)
InsertSorted(s, x) ==
  IF s = << >> THEN << x >>
  ELSE IF StrLess(x, Head(s)) THEN << x >> \o s
  ELSE << Head(s) >> \o InsertSorted(Tail(s), x)

RECURSIVE SortFrom(_, _)
SortFrom(sorted, rest) ==
  IF rest = << >> THEN sorted
  ELSE SortFrom(InsertSorted(sorted, Head(rest)), Tail(rest))

\* the vector is left in the order of enumeration
SortStrings_None(s) == s

\* `enabled.sort()`
SortStrings(s) == SortFrom(<< >>, s)

\* "default" stays at its sorted position
DefaultToFront_None(s) == s

\* `if let Some(pos) = enabled.iter().position(|f| f == "default")`:
\* remove it there and insert it at index 0
DefaultToFront(s) ==
  IF \E i \in 1..Len(s) : s[i] = DefaultName
  THEN LET at == CHOOSE i \in 1..Len(s) :
                   s[i] = DefaultName /\ \A j \in 1..(i - 1) : s[j] # DefaultName
       IN  << s[at] >> \o SubSeq(s, 1, at - 1) \o SubSeq(s, at + 1, Len(s))
  ELSE s

----------------------------------------------------------------------------
(* Inputs of the resolver. *)

NADashB == << "a", "-", "b" >>
NAUnderB == << "a", "_", "b" >>
NFoo == << "f", "o", "o" >>
NCapFoo == << "F", "o", "o" >>
EDefault == << "C", "A", "R", "G", "O", "_", "F", "E", "A", "T", "U", "R", "E", "_", "D", "E", "F", "A", "U", "L", "T" >>
EAUnderB == << "C", "A", "R", "G", "O", "_", "F", "E", "A", "T", "U", "R", "E", "_", "A", "_", "B" >>
EADashB == << "C", "A", "R", "G", "O", "_", "F", "E", "A", "T", "U", "R", "E", "_", "A", "-", "B" >>
EFoo == << "C", "A", "R", "G", "O", "_", "F", "E", "A", "T", "U", "R", "E", "_", "F", "O", "O" >>
EDefaultLower == << "C", "A", "R", "G", "O", "_", "F", "E", "A", "T", "U", "R", "E", "_", "d", "e", "f", "a", "u", "l", "t" >>
ELowerPrefix == << "c", "a", "r", "g", "o", "_", "f", "e", "a", "t", "u", "r", "e", "_", "F", "O", "O" >>
ENotAtStart == << "M", "Y", "_", "C", "A", "R", "G", "O", "_", "F", "E", "A", "T", "U", "R", "E", "_", "F", "O", "O" >>
EShort == << "C", "A", "R", "G", "O", "_", "F", "E", "A", "T", "U", "R", "E" >>

DeclaredPool == { DefaultName, NADashB, NAUnderB, NFoo, NCapFoo }
EnvNamePool == { EDefault, EAUnderB, EADashB, EFoo, EDefaultLower, ELowerPrefix,
                 ENotAtStart, EShort }
EnvValues == { << "1" >>, << >> }

SubsetsUpTo(S, n) == { T \in SUBSET S : Cardinality(T) <= n }

\* the environments of at most n variables [name, value], no name twice
EnvironmentsOver(pool, values, n) ==
  UNION { { { [ name |-> k, value |-> f[k] ] : k \in names } :
              f \in [ names -> values ] } :
          names \in SubsetsUpTo(pool, n) }

Environments(n) == EnvironmentsOver(EnvNamePool, EnvValues, n)

Names(entries) == { e.name : e \in entries }

----------------------------------------------------------------------------
(* The resolver as a state machine: the snapshot std::env::vars() takes, one
   step per variable the iterator yields (in any order), and the return. *)

InitResolve ==
  /\ pc = "call"
  /\ all_features \in SubsetsUpTo(DeclaredPool, MaxDeclared)
  /\ env \in Environments(MaxEnv)
  /\ pending = {}
  /\ enabled = << >>
  /\ result = << >>
  /\ returned = << >>
  /\ snaps = << >>
  /\ writes = 0
  /\ IdleScan
  /\ IdleFile

\* `std::env::vars()`: the environment is copied as it is now
Snapshot ==
  /\ pc = "call"
  /\ pending' = env
  /\ snaps' = Append(snaps, env)
  /\ enabled' = << >>
  /\ pc' = "collect"
  /\ UNCHANGED << scanVars, fileVars, all_features, env, result, returned, writes >>

\* `.filter_map(..)` on the next variable of the snapshot
Collect ==
  /\ pc = "collect"
  /\ \E e \in pending :
       /\ enabled' = enabled \o Visit(e.name, all_features)
       /\ pending' = pending \ {e}
  /\ UNCHANGED << pc, scanVars, fileVars, all_features, env, result, returned,
                  snaps, writes >>

\* `.collect()` is over: sort, move "default" to the front, return
Finish ==
  /\ pc = "collect"
  /\ pending = {}
  /\ result' = DefaultToFront(SortStrings(enabled))
  /\ returned' = Append(returned, result')
  /\ pc' = "done"
  /\ UNCHANGED << scanVars, fileVars, all_features, env, pending, enabled,
                  snaps, writes >>

NextResolve == Snapshot \/ Collect \/ Finish

SpecResolve == InitResolve /\ [][NextResolve]_vars

----------------------------------------------------------------------------
(* Properties of the resolver. *)

\* name is "CARGO_FEATURE_" followed by some s, and d is s with every letter
\* in lower case and every underscore turned into a dash
EnablesName(name, d) ==
  LET n == Len(CargoFeaturePrefix)
  IN  /\ Len(name) = n + Len(d)
      /\ \A i \in 1..n : name[i] = CargoFeaturePrefix[i]
      /\ \A i \in 1..Len(d) :
           d[i] = IF name[n + i] = "_" THEN "-" ELSE LowerChar(name[n + i])

CargoEnvName(d) ==
  CargoFeaturePrefix \o
    [ i \in 1..Len(d) |-> IF d[i] = "-" THEN "_" ELSE UpperChar(d[i]) ]

\* C2: a declared name whose variable is in the environment is returned in
\* its declared spelling, underscores and capitals included.
C2_DeclaredSpellingReported ==
  pc = "done" =>
    \A d \in all_features :
      CargoEnvName(d) \in Names(env) => \E i \in 1..Len(result) : result[i] = d

\* C3: "default" is at index 0 when it is returned at all, and what follows
\* it (the whole sequence when it is absent) is in ascending byte order.
C3_DefaultFirstThenSorted ==
  pc = "done" =>
    LET rest == IF result # << >> /\ result[1] = DefaultName
                THEN Tail(result) ELSE result
    IN  /\ (\E i \in 1..Len(result) : result[i] = DefaultName)
             => result[1] = DefaultName
        /\ \A i, j \in 1..Len(rest) : i < j => StrLeq(rest[i], rest[j])

C3_Witness ==
  /\ pc = "done"
  /\ result = << DefaultName, NADashB, NFoo >>
  /\ enabled = << NFoo, DefaultName, NADashB >>

\* C4: no name is returned twice, so the names other than "default" are in
\* strictly ascending order.
C4_NoDuplicates ==
  pc = "done" =>
    /\ \A i, j \in 1..Len(result) : i < j => result[i] # result[j]
    /\ \A i, j \in 1..Len(result) :
         (i < j /\ result[i] # DefaultName /\ result[j] # DefaultName)
           => StrLess(result[i], result[j])

----------------------------------------------------------------------------
(* list_all and list_enabled_with_path (src/src/lib.rs:56-59, 139-145):
   open the file, read it line by line, scan the lines, unwrap, resolve. *)

FilePool == { LFeatures, LFoo, LDeps, LDefault }

Ok(v) == [ tag |-> "ok", value |-> v ]
Err == [ tag |-> "err", value |-> {} ]

InitFile ==
  /\ pc = "open"
  /\ path_ok \in BOOLEAN
  /\ file_lines \in SeqsUpTo(FilePool, MaxFileLines)
  /\ bad_line \in 0..(Len(file_lines) + 1)
  /\ collected = << >>
  /\ list_all_result = [ tag |-> "none", value |-> {} ]
  /\ all_features = {}
  /\ env \in EnvironmentsOver({ EFoo, EDefault }, { << "1" >> }, MaxFileEnv)
  /\ pending = {}
  /\ enabled = << >>
  /\ result = << >>
  /\ returned = << >>
  /\ snaps = << >>
  /\ writes = 0
  /\ IdleScan

\* `std::fs::File::open(..)?`
OpenFile ==
  /\ pc = "open"
  /\ IF path_ok
     THEN pc' = "read" /\ UNCHANGED list_all_result
     ELSE pc' = "list_all_returned" /\ list_all_result' = Err
  /\ UNCHANGED << scanVars, path_ok, file_lines, bad_line, collected, envVars >>

\* the first failing line ends the read with Ok of the lines before it
ReadLine_Partial ==
  /\ pc = "read"
  /\ Len(collected) < Len(file_lines) \/ bad_line = Len(file_lines) + 1
  /\ IF bad_line = Len(collected) + 1
     THEN /\ list_all_result' = Ok(ParseFeatureKeysFromLines(collected))
          /\ pc' = "list_all_returned"
          /\ UNCHANGED collected
     ELSE /\ collected' = Append(collected, file_lines[Len(collected) + 1])
          /\ UNCHANGED << pc, list_all_result >>
  /\ UNCHANGED << scanVars, path_ok, file_lines, bad_line, envVars >>

\* `reader.lines().collect()` on the next line, and `lines?`: the first Err
\* ends the collection and is returned; the lines read so far are dropped
ReadLine ==
  /\ pc = "read"
  /\ Len(collected) < Len(file_lines) \/ bad_line = Len(file_lines) + 1
  /\ IF bad_line = Len(collected) + 1
     THEN /\ list_all_result' = Err
          /\ collected' = << >>
          /\ pc' = "list_all_returned"
     ELSE /\ collected' = Append(collected, file_lines[Len(collected) + 1])
          /\ UNCHANGED << pc, list_all_result >>
  /\ UNCHANGED << scanVars, path_ok, file_lines, bad_line, envVars >>

\* end of file: `Ok(parse_feature_keys_from_lines(lines))`
ListAllReturn ==
  /\ pc = "read"
  /\ Len(collected) = Len(file_lines)
  /\ bad_line # Len(file_lines) + 1
  /\ list_all_result' = Ok(ParseFeatureKeysFromLines(collected))
  /\ pc' = "list_all_returned"
  /\ UNCHANGED << scanVars, path_ok, file_lines, bad_line, collected, envVars >>

\* `list_all(cargo_toml_path).unwrap()`, then the call of list_enabled_among
Unwrap ==
  /\ pc = "list_all_returned"
  /\ IF list_all_result.tag = "ok"
     THEN pc' = "call" /\ all_features' = list_all_result.value
     ELSE pc' = "panicked" /\ UNCHANGED all_features
  /\ UNCHANGED << scanVars, fileVars, env, pending, enabled, result, returned,
                  snaps, writes >>

NextFile ==
  OpenFile \/ ReadLine \/ ListAllReturn \/ Unwrap \/ Snapshot \/ Collect \/ Finish

SpecFile == InitFile /\ [][NextFile]_vars

\* the open fails, or the read of some line does
Failing == ~ path_ok \/ bad_line \in 1..(Len(file_lines) + 1)

\* C9: when the open or the read of any line fails, list_all returns Err and
\* no key set, whatever was read before; nothing is read again after the
\* failure, and list_enabled_with_path panics and returns no list.
C9_FailureIsAllOrNothing ==
  /\ [](Failing =>
          /\ list_all_result.tag # "ok"
          /\ list_all_result.value = {}
          /\ pc \in { "list_all_returned", "panicked" } => list_all_result.tag = "err"
          /\ pc \in { "open", "read", "list_all_returned", "panicked" }
          /\ all_features = {}
          /\ returned = << >>)
  /\ [][list_all_result.tag = "err" =>
          (pc' = "panicked" /\ list_all_result' = list_all_result
             /\ collected' = collected)]_vars

C9_Witness ==
  /\ pc = "panicked"
  /\ path_ok
  /\ file_lines = << LFeatures, LFoo, LDeps >>
  /\ bad_line = 3
  /\ list_all_result = Err

----------------------------------------------------------------------------
(* The resolver called again and again by one thread while other threads of
   the process call set_var and remove_var (tests/enabled_features.rs). *)

\* the variables the other threads set and remove, and the declared names
\* the calls are made with
ConcNamePool == { EFoo, EADashB, EAUnderB }
ConcDeclaredPool == { NFoo, NADashB, NAUnderB }

InitConc ==
  /\ pc = "call"
  /\ all_features \in SubsetsUpTo(ConcDeclaredPool, MaxDeclared)
  /\ env = {}
  /\ pending = {}
  /\ enabled = << >>
  /\ result = << >>
  /\ returned = << >>
  /\ snaps = << >>
  /\ writes = 0
  /\ IdleScan
  /\ IdleFile

\* the next call of list_enabled_among, with the same argument
CallAgain ==
  /\ pc = "done"
  /\ Len(returned) < MaxCalls
  /\ pc' = "call"
  /\ UNCHANGED << scanVars, fileVars, envVars >>

\* `set_var(k, "1")` in another thread
SetVar ==
  /\ writes < MaxWrites
  /\ \E k \in ConcNamePool :
       env' = { e \in env : e.name # k } \cup { [ name |-> k, value |-> << "1" >> ] }
  /\ writes' = writes + 1
  /\ UNCHANGED << pc, scanVars, fileVars, all_features, pending, enabled, result,
                  returned, snaps >>

\* `remove_var(k)` in another thread
RemoveVar ==
  /\ writes < MaxWrites
  /\ \E k \in Names(env) : env' = { e \in env : e.name # k }
  /\ writes' = writes + 1
  /\ UNCHANGED << pc, scanVars, fileVars, all_features, pending, enabled, result,
                  returned, snaps >>

NextConc == Snapshot \/ Collect \/ Finish \/ CallAgain \/ SetVar \/ RemoveVar

SpecConc == InitConc /\ [][NextConc]_vars

====
